---- MODULE Spec2Model ----
(***************************************************************************)
(* Model of the data mesh consumer bootstrap: the IAM provisioning         *)
(* routines of data_mesh_util/lib/utils.py and the DataMeshConsumer        *)
(* controller, run against one account's IAM state.                        *)
(***************************************************************************)
EXTENDS Naturals, Sequences, FiniteSets, TLC

VARIABLES caller_account, iam, consumers, last, pc, local

vars == <<caller_account, iam, consumers, last, pc, local>>

(***************************************************************************)
(* Bounds                                                                  *)
(***************************************************************************)
NumAccounts == 2
MaxPrincipals == 2
NumProcs == 2

None == "None"

(* an optional argument: absent, or one value *)
Absent == <<>>
Some(v) == <<v>>

AccountIds == <<"111111111111", "222222222222", "333333333333", "444444444444">>
Accounts == {AccountIds[i] : i \in 1..NumAccounts}

(***************************************************************************)
(* Names (lib/constants.py)                                                *)
(***************************************************************************)
DATA_MESH_IAM_PATH == "/AwsDataMesh/"
DATA_MESH_CONSUMER_ROLENAME == "DataMeshConsumer"
DATA_MESH_ADMIN_CONSUMER_ROLENAME == "DataMeshAdminConsumer"
CONSUMER_POLICY_NAME == "DataMeshConsumerPolicy"
CONSUMER_POLICY_TEMPLATE == "consumer_policy.pystache"

RoleNames == {DATA_MESH_CONSUMER_ROLENAME, DATA_MESH_ADMIN_CONSUMER_ROLENAME}

GroupName(role_name) == role_name \o "Group"
AssumePolicyName(role_name) == "Assume" \o role_name

(***************************************************************************)
(* ARN templates                                                           *)
(***************************************************************************)
PolicyArn_nopath(account_id, policy_name) ==
    "arn:aws:iam::" \o account_id \o ":policy/" \o policy_name

PolicyArn(account_id, policy_name) ==
    "arn:aws:iam::" \o account_id \o ":policy" \o DATA_MESH_IAM_PATH \o policy_name

UserArn(account_id, role_name) ==
    "arn:aws:iam::" \o account_id \o ":user" \o DATA_MESH_IAM_PATH \o role_name

RootArn(account_id) == "arn:aws:iam::" \o account_id \o ":root"

IamArn(account_id, type, path, name) ==
    "arn:aws:iam::" \o account_id \o ":" \o type \o path \o name

get_datamesh_consumer_role_arn(account_id) ==
    IamArn(account_id, "role", DATA_MESH_IAM_PATH, DATA_MESH_ADMIN_CONSUMER_ROLENAME)

(***************************************************************************)
(* JSON transport of a policy document: dumped by the caller, parsed by    *)
(* the service.                                                            *)
(***************************************************************************)
JsonDumps(doc) == <<"json", doc>>
JsonLoads(text) == text[2]

(***************************************************************************)
(* The IAM service, for the client's account.  Each call returns the new   *)
(* service state, the exception raised ("none" when it returns normally)   *)
(* and the response.                                                       *)
(***************************************************************************)
Reply(s, err, resp) == [iam |-> s, err |-> err, resp |-> resp]

IamGetRole(s, role_name) ==
    IF role_name \in DOMAIN s.roles
    THEN Reply(s, "none", [Arn |-> s.roles[role_name].Arn,
                           AssumeRolePolicyDocument |-> s.roles[role_name].Trust])
    ELSE Reply(s, "NoSuchEntity", None)

IamCreatePolicy(s, acct, policy_name, path, document) ==
    LET arn == IamArn(acct, "policy", path, policy_name)
    IN IF arn \in DOMAIN s.policies
       THEN Reply(s, "EntityAlreadyExists", None)
       ELSE Reply([s EXCEPT !.policies = (arn :> JsonLoads(document)) @@ @], "none", arn)

IamCreateUser(s, user_name) ==
    IF user_name \in s.users
    THEN Reply(s, "EntityAlreadyExists", None)
    ELSE Reply([s EXCEPT !.users = @ \cup {user_name}], "none", user_name)

IamCreateGroup(s, group_name) ==
    IF group_name \in s.groups
    THEN Reply(s, "EntityAlreadyExists", None)
    ELSE Reply([s EXCEPT !.groups = @ \cup {group_name}], "none", group_name)

IamAddUserToGroup(s, group_name, user_name) ==
    IF group_name \in s.groups /\ user_name \in s.users
    THEN Reply([s EXCEPT !.members = @ \cup {<<group_name, user_name>>}], "none", None)
    ELSE Reply(s, "NoSuchEntity", None)

IamCreateRole(s, acct, role_name, path, document) ==
    IF role_name \in DOMAIN s.roles
    THEN Reply(s, "EntityAlreadyExists", None)
    ELSE LET role == [Arn |-> IamArn(acct, "role", path, role_name),
                      Trust |-> JsonLoads(document),
                      Attached |-> {}]
         IN Reply([s EXCEPT !.roles = (role_name :> role) @@ @], "none", [Arn |-> role.Arn])

IamAttachRolePolicy(s, role_name, policy_arn) ==
    IF role_name \in DOMAIN s.roles /\ policy_arn \in DOMAIN s.policies
    THEN Reply([s EXCEPT !.roles[role_name].Attached = @ \cup {policy_arn}], "none", None)
    ELSE Reply(s, "NoSuchEntity", None)

IamAttachGroupPolicy(s, group_name, policy_arn) ==
    IF group_name \in s.groups /\ policy_arn \in DOMAIN s.policies
    THEN Reply([s EXCEPT !.group_policies = @ \cup {<<group_name, policy_arn>>}], "none", None)
    ELSE Reply(s, "NoSuchEntity", None)

IamUpdateAssumeRolePolicy(s, role_name, document) ==
    IF role_name \in DOMAIN s.roles
    THEN Reply([s EXCEPT !.roles[role_name].Trust = JsonLoads(document)], "none", None)
    ELSE Reply(s, "NoSuchEntity", None)

(***************************************************************************)
(* lib/utils.py                                                            *)
(***************************************************************************)
Range(seq) == {seq[i] : i \in 1..Len(seq)}

validate_correct_account(s, role_must_exist) ==
    IamGetRole(s, role_must_exist).err # "NoSuchEntity"

generate_policy(template_file, config) ==
    [Template |-> template_file, Config |-> config]

Reverse(seq) == [i \in 1..Len(seq) |-> seq[Len(seq) + 1 - i]]

create_assume_role_doc_reversed(aws_principals, resource, additional_principals) ==
    LET base == [Effect |-> "Allow", Action |-> "sts:AssumeRole"]
        withAws == IF aws_principals # Absent
                   THEN ("Principal" :> ("AWS" :> Reverse(aws_principals[1]))) @@ base
                   ELSE base
        withRes == IF resource # Absent
                   THEN ("Resource" :> resource[1]) @@ withAws
                   ELSE withAws
    IN [Version |-> "2012-10-17", Statement |-> <<withRes>>]

create_assume_role_doc(aws_principals, resource, additional_principals) ==
    LET base == [Effect |-> "Allow", Action |-> "sts:AssumeRole"]
        withAws == IF aws_principals # Absent
                   THEN ("Principal" :> ("AWS" :> aws_principals[1])) @@ base
                   ELSE base
        keyError == additional_principals # Absent /\ "Principal" \notin DOMAIN withAws
        withMore == IF additional_principals # Absent /\ ~keyError
                    THEN ("Principal" :> (additional_principals[1] @@ withAws["Principal"]))
                         @@ withAws
                    ELSE withAws
        withRes == IF resource # Absent
                   THEN ("Resource" :> resource[1]) @@ withMore
                   ELSE withMore
    IN IF keyError
       THEN [raised |-> "KeyError"]
       ELSE [Version |-> "2012-10-17", Statement |-> <<withRes>>]

AddTrustedEntity_always(trusted_entities, account_id) ==
    Append(trusted_entities, account_id)

AddTrustedEntity_replace(trusted_entities, account_id) ==
    IF account_id \notin Range(trusted_entities)
    THEN <<account_id>>
    ELSE trusted_entities

(* lines 40-43: the trust list after adding account_id *)
AddTrustedEntity(trusted_entities, account_id) ==
    IF account_id \notin Range(trusted_entities)
    THEN Append(trusted_entities, account_id)
    ELSE trusted_entities

TrustedEntities(policy_doc) == policy_doc.Statement[1]["Principal"]["AWS"]

WithTrustedEntities(policy_doc, account_id) ==
    [policy_doc EXCEPT !.Statement[1]["Principal"]["AWS"] = AddTrustedEntity(@, account_id)]

WriteTrust_fresh(s, role_name, policy_doc, account_id) ==
    IamUpdateAssumeRolePolicy(s, role_name,
        JsonDumps(create_assume_role_doc(Some(<<account_id>>), Absent, Absent)))

(* lines 32-37: the read half; lines 40-45: the write half *)
ReadTrust(s, role_name) == IamGetRole(s, role_name)

WriteTrust(s, role_name, policy_doc, account_id) ==
    IamUpdateAssumeRolePolicy(s, role_name, JsonDumps(WithTrustedEntities(policy_doc, account_id)))

(* evaluates v once, then the rest of the routine on its value *)
Then(v, F(_)) == CHOOSE y \in {F(x) : x \in {v}} : TRUE

Result(s, err, ret, calls) == [iam |-> s, err |-> err, ret |-> ret, calls |-> calls]

add_aws_trust_to_role(s, account_id, role_name) ==
    Then(ReadTrust(s, role_name), LAMBDA read :
    IF read.err # "none"
    THEN Result(s, read.err, None, <<"get_role", "get_role">>)
    ELSE Then(WriteTrust(s, role_name, read.resp.AssumeRolePolicyDocument, account_id),
              LAMBDA write :
         Result(write.iam, write.err, None,
                <<"get_role", "get_role", "update_assume_role_policy">>)))

(* lines 171-186 *)
create_assume_role_policy(s, acct, account_id, policy_name, role_arn) ==
    Then(IamCreatePolicy(s, acct, policy_name, DATA_MESH_IAM_PATH,
                         JsonDumps(create_assume_role_doc(Absent, Some(role_arn), Absent))),
         LAMBDA created :
    IF created.err = "EntityAlreadyExists"
    THEN Result(s, "none", PolicyArn(account_id, policy_name), <<"create_policy">>)
    ELSE Result(created.iam, "none", created.resp, <<"create_policy">>))

ExistingRoleArn_derived(s, role_name) == "arn:aws:iam::role/" \o role_name

(* lines 144-146: the role's ARN when create_role found the role present *)
ExistingRoleArn(s, role_name) == IamGetRole(s, role_name).resp.Arn

(* line 157: the policy handed to attach_group_policy *)
GroupPolicyArn(policy_arn, assume_policy_arn) == policy_arn

(* lines 131: the principals trusted by a new role *)
InitialPrincipals(account_id, role_name) ==
    <<UserArn(account_id, role_name), RootArn(account_id)>>

configure_iam(s, acct, policy_name, policy_template, role_name, account_id, config, additional_assuming_principals) ==
    Then(IamCreatePolicy(s, acct, policy_name, DATA_MESH_IAM_PATH,
                         JsonDumps(generate_policy(policy_template, config))), LAMBDA r1 :
    Then(IamCreateUser(r1.iam, role_name), LAMBDA r2 :
    Then(IamCreateGroup(r2.iam, GroupName(role_name)), LAMBDA r3 :
    Then(IamAddUserToGroup(r3.iam, GroupName(role_name), role_name), LAMBDA r4 :
    Then(IamCreateRole(r4.iam, acct, role_name, DATA_MESH_IAM_PATH,
                       JsonDumps(create_assume_role_doc(
                           Some(InitialPrincipals(account_id, role_name)), Absent,
                           additional_assuming_principals))), LAMBDA r5 :
    LET policy_arn == IF r1.err = "EntityAlreadyExists"
                      THEN PolicyArn(account_id, policy_name)
                      ELSE r1.resp
        role_arn == IF r5.err = "EntityAlreadyExists"
                    THEN ExistingRoleArn(r5.iam, role_name)
                    ELSE r5.resp.Arn
        calls5 == <<"create_policy", "create_user", "create_group", "add_user_to_group",
                    "create_role">>
                  \o (IF r5.err = "EntityAlreadyExists" THEN <<"get_role">> ELSE <<>>)
    IN
    Then(IamAttachRolePolicy(r5.iam, role_name, policy_arn), LAMBDA r6 :
    Then(create_assume_role_policy(r6.iam, acct, account_id,
                                   AssumePolicyName(role_name), role_arn), LAMBDA r7 :
    Then(IamAttachGroupPolicy(r7.iam, GroupName(role_name),
                              GroupPolicyArn(policy_arn, r7.ret)), LAMBDA r8 :
    IF r4.err # "none"
    THEN Result(r4.iam, r4.err, None, SubSeq(calls5, 1, 4))
    ELSE IF r6.err # "none"
    THEN Result(r6.iam, r6.err, None, calls5 \o <<"attach_role_policy">>)
    ELSE IF r8.err # "none"
    THEN Result(r8.iam, r8.err, None,
                calls5 \o <<"attach_role_policy">> \o r7.calls \o <<"attach_group_policy">>)
    ELSE Result(r8.iam, "none", role_arn,
                calls5 \o <<"attach_role_policy">> \o r7.calls \o <<"attach_group_policy">>)
    ))))))))

(***************************************************************************)
(* DataMeshConsumer.py                                                     *)
(***************************************************************************)
Regions == {None, "us-east-1"}

(* lines 41-52: the calls __init__ makes before it looks at the region *)
CallsBeforeRegionCheck == <<"get_caller_identity", "assume_role", "SubscriberTracker">>

DataMeshConsumer__init__(data_mesh_account_id, current_region) ==
    LET self == [data_mesh_account_id |-> data_mesh_account_id,
                 data_consumer_role_arn |-> get_datamesh_consumer_role_arn(data_mesh_account_id),
                 current_region |-> current_region]
    IN IF current_region = None
       THEN [err |-> "Exception", self |-> None, calls |-> CallsBeforeRegionCheck]
       ELSE [err |-> "none", self |-> self, calls |-> CallsBeforeRegionCheck]

check_acct_skipped(s) == TRUE

check_acct(s) == validate_correct_account(s, DATA_MESH_ADMIN_CONSUMER_ROLENAME)

initialize_consumer_account(s, acct, self) ==
    IF ~check_acct(s)
    THEN Result(s, "Exception", None, <<"get_role">>)
    ELSE LET account_id == acct IN
         Then(configure_iam(s, acct, CONSUMER_POLICY_NAME, CONSUMER_POLICY_TEMPLATE,
                            DATA_MESH_CONSUMER_ROLENAME, account_id, Absent, Absent), LAMBDA c :
         Then(create_assume_role_policy(c.iam, acct, account_id, "AssumeDataMeshAdminConsumer",
                                        self.data_consumer_role_arn), LAMBDA p :
         Then(IamAttachGroupPolicy(p.iam, GroupName(DATA_MESH_CONSUMER_ROLENAME), p.ret),
              LAMBDA g :
         LET calls == <<"get_role", "get_caller_identity">> \o c.calls
         IN IF c.err # "none"
            THEN Result(c.iam, c.err, None, calls)
            ELSE Result(g.iam, g.err, IF g.err = "none" THEN c.ret ELSE None,
                        calls \o p.calls \o <<"attach_group_policy">>)
         )))

(***************************************************************************)
(* Initial IAM states: any part of what an earlier provisioning of the     *)
(* consumer role leaves behind may already be there.                       *)
(***************************************************************************)
EmptyIam == [policies |-> <<>>, users |-> {}, groups |-> {}, members |-> {},
             roles |-> <<>>, group_policies |-> {}]

Resources == {"policy", "user", "group", "membership", "role", "assume_policy"}

Consistent(have) == "membership" \in have => {"user", "group"} \subseteq have

Existing(s, acct, policy_name, role_name) ==
    (IF IamArn(acct, "policy", DATA_MESH_IAM_PATH, policy_name) \in DOMAIN s.policies
     THEN {"policy"} ELSE {})
    \cup (IF role_name \in s.users THEN {"user"} ELSE {})
    \cup (IF GroupName(role_name) \in s.groups THEN {"group"} ELSE {})
    \cup (IF <<GroupName(role_name), role_name>> \in s.members THEN {"membership"} ELSE {})
    \cup (IF role_name \in DOMAIN s.roles THEN {"role"} ELSE {})
    \cup (IF IamArn(acct, "policy", DATA_MESH_IAM_PATH, AssumePolicyName(role_name))
             \in DOMAIN s.policies
          THEN {"assume_policy"} ELSE {})

Provisioned(acct, role_name, have, admin) ==
    LET role_arn == IamArn(acct, "role", DATA_MESH_IAM_PATH, role_name)
        pol == IF "policy" \in have
               THEN IamArn(acct, "policy", DATA_MESH_IAM_PATH, CONSUMER_POLICY_NAME)
                    :> generate_policy(CONSUMER_POLICY_TEMPLATE, Absent)
               ELSE <<>>
        apol == IF "assume_policy" \in have
                THEN IamArn(acct, "policy", DATA_MESH_IAM_PATH, AssumePolicyName(role_name))
                     :> create_assume_role_doc(Absent, Some(role_arn), Absent)
                ELSE <<>>
        role == IF "role" \in have
                THEN role_name :> [Arn |-> role_arn,
                                   Trust |-> create_assume_role_doc(
                                       Some(InitialPrincipals(acct, role_name)), Absent,
                                       Absent),
                                   Attached |-> {}]
                ELSE <<>>
        adminRole == IF admin
                     THEN DATA_MESH_ADMIN_CONSUMER_ROLENAME :>
                          [Arn |-> IamArn(acct, "role", DATA_MESH_IAM_PATH,
                                          DATA_MESH_ADMIN_CONSUMER_ROLENAME),
                           Trust |-> create_assume_role_doc(Some(<<RootArn(acct)>>), Absent, Absent),
                           Attached |-> {}]
                     ELSE <<>>
    IN [policies |-> pol @@ apol,
        users |-> IF "user" \in have THEN {role_name} ELSE {},
        groups |-> IF "group" \in have THEN {GroupName(role_name)} ELSE {},
        members |-> IF "membership" \in have THEN {<<GroupName(role_name), role_name>>} ELSE {},
        roles |-> role @@ adminRole,
        group_policies |-> {}]

NoPrior == [err |-> None, ret |-> None, calls |-> <<>>]

NoCall == [op |-> "none", args |-> <<>>, err |-> "none", ret |-> None, calls |-> <<>>,
           pre |-> None, prior |-> NoPrior]

Idle == [p \in 1..NumProcs |-> "idle"]
NoLocal == [p \in 1..NumProcs |->
              [account_id |-> None, role_name |-> None, valid |-> FALSE,
               policy_doc |-> Absent, overlapped |-> FALSE]]

Init ==
    /\ caller_account \in Accounts
    /\ \E have \in SUBSET Resources, admin \in BOOLEAN :
          /\ Consistent(have)
          /\ iam = Provisioned(caller_account, DATA_MESH_CONSUMER_ROLENAME, have, admin)
    /\ consumers = {}
    /\ last = NoCall
    /\ pc = Idle
    /\ local = NoLocal

(* what the previous call returned, when it was this same call *)
Prior(op, args) ==
    IF last.op = op /\ last.args = args
    THEN [err |-> last.err, ret |-> last.ret, calls |-> last.calls]
    ELSE NoPrior

Call(op, args, res, pre, prior) ==
    [op |-> op, args |-> args, err |-> res.err, ret |-> res.ret, calls |-> res.calls,
     pre |-> pre, prior |-> prior]

(***************************************************************************)
(* Operations, one call at a time                                          *)
(***************************************************************************)
NewConsumer(data_mesh_account_id, current_region) ==
    LET r == DataMeshConsumer__init__(data_mesh_account_id, current_region)
    IN /\ consumers' = IF r.err = "none" THEN consumers \cup {r.self} ELSE consumers
       /\ last' = Call("__init__", <<data_mesh_account_id, current_region>>,
                       [err |-> r.err, ret |-> None, calls |-> r.calls], None, NoPrior)
       /\ UNCHANGED <<caller_account, iam, pc, local>>

InitializeConsumerAccount(self) ==
    /\ \E r \in {initialize_consumer_account(iam, caller_account, self)} :
          /\ iam' = r.iam
          /\ last' = Call("initialize_consumer_account", <<self.data_mesh_account_id>>, r,
                          Existing(iam, caller_account, CONSUMER_POLICY_NAME,
                                   DATA_MESH_CONSUMER_ROLENAME), NoPrior)
    /\ UNCHANGED <<caller_account, consumers, pc, local>>

ConfigureIam(policy_name, role_name) ==
    /\ \E r \in {configure_iam(iam, caller_account, policy_name, CONSUMER_POLICY_TEMPLATE,
                               role_name, caller_account, Absent, Absent)} :
          /\ iam' = r.iam
          /\ last' = Call("configure_iam", <<policy_name, role_name, caller_account>>, r,
                          Existing(iam, caller_account, policy_name, role_name),
                          Prior("configure_iam", <<policy_name, role_name, caller_account>>))
    /\ UNCHANGED <<caller_account, consumers, pc, local>>

AddAwsTrustToRole(account_id, role_name) ==
    /\ \E r \in {add_aws_trust_to_role(iam, account_id, role_name)} :
          /\ iam' = r.iam
          /\ last' = Call("add_aws_trust_to_role", <<account_id, role_name>>, r,
                          IF role_name \in DOMAIN iam.roles
                          THEN TrustedEntities(iam.roles[role_name].Trust)
                          ELSE <<>>, NoPrior)
    /\ UNCHANGED <<caller_account, consumers, pc, local>>

RoleArns == {IamArn(caller_account, "role", DATA_MESH_IAM_PATH, r) : r \in RoleNames}

CreateAssumeRolePolicy(policy_name, role_arn) ==
    /\ \E r \in {create_assume_role_policy(iam, caller_account, caller_account, policy_name,
                                           role_arn)} :
          /\ iam' = r.iam
          /\ last' = Call("create_assume_role_policy", <<policy_name, role_arn>>, r,
                          IamArn(caller_account, "policy", DATA_MESH_IAM_PATH, policy_name)
                              \in DOMAIN iam.policies,
                          NoPrior)
    /\ UNCHANGED <<caller_account, consumers, pc, local>>

Next ==
    \/ \E r \in RoleNames : ConfigureIam(CONSUMER_POLICY_NAME, r)
    \/ \E a \in Accounts, r \in RoleNames : AddAwsTrustToRole(a, r)

Spec == Init /\ [][Next]_vars

NextConsumer ==
    \/ \E m \in Accounts, region \in Regions : NewConsumer(m, region)
    \/ \E self \in consumers : InitializeConsumerAccount(self)
    \/ \E r \in RoleNames, arn \in RoleArns : CreateAssumeRolePolicy(AssumePolicyName(r), arn)

SpecConsumer == Init /\ [][NextConsumer]_vars

(***************************************************************************)
(* add_aws_trust_to_role on a role whose trust list is any short list of   *)
(* principals.                                                             *)
(***************************************************************************)
SeqsUpTo(S, n) == UNION {[1..k -> S] : k \in 0..n}

PrincipalPool == Accounts \cup {RootArn(a) : a \in Accounts}

RoleWithTrust(acct, role_name, trusted) ==
    [EmptyIam EXCEPT !.roles = role_name :>
        [Arn |-> IamArn(acct, "role", DATA_MESH_IAM_PATH, role_name),
         Trust |-> create_assume_role_doc(Some(trusted), Absent, Absent),
         Attached |-> {}]]

InitTrust ==
    /\ caller_account \in Accounts
    /\ \E trusted \in SeqsUpTo(PrincipalPool, MaxPrincipals) :
          /\ Len(trusted) >= 1
          /\ iam = RoleWithTrust(caller_account, DATA_MESH_CONSUMER_ROLENAME, trusted)
    /\ consumers = {}
    /\ last = NoCall
    /\ pc = Idle
    /\ local = NoLocal

NextTrust == \E a \in Accounts, r \in RoleNames : AddAwsTrustToRole(a, r)

SpecTrust == InitTrust /\ [][NextTrust]_vars

(***************************************************************************)
(* create_assume_role_doc applied to bounded inputs                        *)
(***************************************************************************)
OptionOf(S) == {Absent} \cup {Some(v) : v \in S}

AdditionalPrincipals == {[Service |-> "lakeformation.amazonaws.com"]}

CreateAssumeRoleDoc(aws_principals, resource, additional_principals) ==
    /\ last' = [NoCall EXCEPT !.op = "create_assume_role_doc",
                              !.args = <<aws_principals, resource, additional_principals>>,
                              !.ret = create_assume_role_doc(aws_principals, resource,
                                                             additional_principals)]
    /\ UNCHANGED <<caller_account, iam, consumers, pc, local>>

InitDoc ==
    /\ caller_account \in Accounts
    /\ iam = EmptyIam
    /\ consumers = {}
    /\ last = NoCall
    /\ pc = Idle
    /\ local = NoLocal

NextDoc ==
    \E P \in OptionOf(SeqsUpTo(PrincipalPool, MaxPrincipals)),
       r \in OptionOf(RoleArns),
       more \in OptionOf(AdditionalPrincipals) : CreateAssumeRoleDoc(P, r, more)

SpecDoc == InitDoc /\ [][NextDoc]_vars

(***************************************************************************)
(* add_aws_trust_to_role run by several callers at once: each call is its  *)
(* three service requests, in program order, interleaved with the others'. *)
(* overlapped records whether the call ran while another was in progress.  *)
(***************************************************************************)
Procs == 1..NumProcs

Active(p) == pc[p] \in {"validated", "read"}

Begin(p, account_id, role_name) ==
    /\ pc[p] = "idle"
    /\ LET others == {q \in Procs : q # p /\ Active(q)}
       IN local' = [q \in Procs |->
                       IF q = p
                       THEN [account_id |-> account_id, role_name |-> role_name,
                             valid |-> validate_correct_account(iam, role_name),
                             policy_doc |-> Absent, overlapped |-> others # {}]
                       ELSE IF q \in others
                       THEN [local[q] EXCEPT !.overlapped = TRUE]
                       ELSE local[q]]
    /\ pc' = [pc EXCEPT ![p] = "validated"]
    /\ UNCHANGED <<caller_account, iam, consumers, last>>

GetRole(p) ==
    /\ pc[p] = "validated"
    /\ LET r == ReadTrust(iam, local[p].role_name)
       IN IF r.err # "none"
          THEN /\ pc' = [pc EXCEPT ![p] = "failed"]
               /\ UNCHANGED local
          ELSE /\ pc' = [pc EXCEPT ![p] = "read"]
               /\ local' = [local EXCEPT ![p].policy_doc = Some(r.resp.AssumeRolePolicyDocument)]
    /\ UNCHANGED <<caller_account, iam, consumers, last>>

Update(p) ==
    /\ pc[p] = "read"
    /\ LET r == WriteTrust(iam, local[p].role_name, local[p].policy_doc[1], local[p].account_id)
       IN /\ iam' = r.iam
          /\ pc' = [pc EXCEPT ![p] = IF r.err = "none" THEN "done" ELSE "failed"]
    /\ UNCHANGED <<caller_account, consumers, last, local>>

InitConc ==
    /\ caller_account \in Accounts
    /\ \E have \in {{}, Resources} :
          iam = Provisioned(caller_account, DATA_MESH_CONSUMER_ROLENAME, have, FALSE)
    /\ consumers = {}
    /\ last = NoCall
    /\ pc = Idle
    /\ local = NoLocal

NextConc ==
    \/ \E p \in Procs, a \in Accounts : Begin(p, a, DATA_MESH_CONSUMER_ROLENAME)
    \/ \E p \in Procs : GetRole(p)
    \/ \E p \in Procs : Update(p)

SpecConc == InitConc /\ [][NextConc]_vars

(***************************************************************************)
(* Properties                                                              *)
(***************************************************************************)
TrustOf(role_name) == TrustedEntities(iam.roles[role_name].Trust)

AssumeStatement(resource) ==
    [Effect |-> "Allow", Action |-> "sts:AssumeRole", Resource |-> resource]

(* C1: after configure_iam on an account where nothing of the role was     *)
(* provisioned, policy "Assume"+R exists, its single statement's Resource  *)
(* is the new role's ARN, and that Assume policy is attached to group      *)
(* R+"Group".                                                              *)
C1_AssumePolicyAttachedToGroup ==
    (last.op = "configure_iam" /\ last.pre = {} /\ last.err = "none") =>
        LET role_name == last.args[2]
            assume_arn == IamArn(caller_account, "policy", DATA_MESH_IAM_PATH,
                                 AssumePolicyName(role_name))
        IN /\ assume_arn \in DOMAIN iam.policies
           /\ iam.policies[assume_arn].Statement = <<AssumeStatement(last.ret)>>
           /\ <<GroupName(role_name), assume_arn>> \in iam.group_policies

(* C2: constructing DataMeshConsumer with no region raises the             *)
(* configuration error with no get_caller_identity, assume_role or         *)
(* SubscriberTracker call before it.                                       *)
C2_RegionCheckedBeforeNetwork ==
    (last.op = "__init__" /\ last.args[2] = None) =>
        (last.err = "Exception" /\ last.calls = <<>>)

(* C3: configure_iam called twice in succession with the same arguments    *)
(* returns the same role ARN both times.                                   *)
C3_SameRoleArnTwice ==
    (last.op = "configure_iam" /\ last.prior # NoPrior) =>
        /\ last.prior.err = "none"
        /\ last.err = "none"
        /\ last.ret # None
        /\ last.ret = last.prior.ret

C3_CreatedThenLookedUp ==
    /\ last.op = "configure_iam"
    /\ last.prior.err = "none"
    /\ "get_role" \notin Range(last.prior.calls)
    /\ "get_role" \in Range(last.calls)
    /\ last.err = "none"

(* C4: add_aws_trust_to_role on a role with trust list L writes back L     *)
(* when account_id is in L, and otherwise L with account_id appended at    *)
(* the end, the existing entries in their original order.                  *)
C4_TrustListWrittenBack ==
    (last.op = "add_aws_trust_to_role" /\ last.err = "none") =>
        LET L == last.pre
            account_id == last.args[1]
            W == TrustOf(last.args[2])
        IN IF \E i \in 1..Len(L) : L[i] = account_id
           THEN W = L
           ELSE /\ Len(W) = Len(L) + 1
                /\ W[Len(W)] = account_id
                /\ \A i \in 1..Len(L) : W[i] = L[i]

C4_AppendedToLongerList ==
    /\ last.op = "add_aws_trust_to_role"
    /\ last.err = "none"
    /\ Len(last.pre) >= 2
    /\ last.args[1] \notin Range(last.pre)
    /\ Len(TrustOf(last.args[2])) = Len(last.pre) + 1

(* C5: concurrent add_aws_trust_to_role calls for one role can lose an     *)
(* update; when no call overlaps another, every completed call's account   *)
(* ID is in the role's trust list.                                         *)
C5_SerializedKeepsAll ==
    (\A p \in Procs : pc[p] \in {"idle", "done"} /\ ~local[p].overlapped) =>
        \A p \in Procs : pc[p] = "done" =>
            local[p].account_id \in Range(TrustOf(local[p].role_name))

C5_LostUpdate ==
    \E p, q \in Procs :
        /\ p # q
        /\ pc[p] = "done" /\ pc[q] = "done"
        /\ local[p].role_name = local[q].role_name
        /\ local[p].account_id # local[q].account_id
        /\ local[p].account_id \notin Range(TrustOf(local[p].role_name))
        /\ local[q].account_id \in Range(TrustOf(local[p].role_name))

(* C6: initialize_consumer_account, when the DataMeshAdminConsumer role    *)
(* does not exist, raises after the existence check alone and leaves the   *)
(* IAM state unchanged.                                                    *)
C6_MissingAdminRoleRaises ==
    [][(last'.op = "initialize_consumer_account"
        /\ DATA_MESH_ADMIN_CONSUMER_ROLENAME \notin DOMAIN iam.roles) =>
           /\ last'.err = "Exception"
           /\ last'.calls = <<"get_role">>
           /\ iam' = iam]_vars

C6_Raised ==
    /\ last.op = "initialize_consumer_account"
    /\ last.err = "Exception"
    /\ DATA_MESH_ADMIN_CONSUMER_ROLENAME \notin DOMAIN iam.roles
    /\ consumers # {}

(* C7: create_assume_role_doc(aws_principals=P) is one Allow               *)
(* sts:AssumeRole statement whose Principal.AWS is P, with no Resource;    *)
(* create_assume_role_doc(resource=r) is one Allow sts:AssumeRole          *)
(* statement with Resource r and no Principal.                             *)
C7_AssumeRoleDocShape ==
    (last.op = "create_assume_role_doc" /\ last.args[3] = Absent) =>
        LET P == last.args[1]
            r == last.args[2]
            d == last.ret
        IN /\ (P # Absent /\ r = Absent) =>
                 /\ DOMAIN d = {"Version", "Statement"}
                 /\ Len(d.Statement) = 1
                 /\ DOMAIN d.Statement[1] = {"Effect", "Action", "Principal"}
                 /\ d.Statement[1]["Effect"] = "Allow"
                 /\ d.Statement[1]["Action"] = "sts:AssumeRole"
                 /\ DOMAIN d.Statement[1]["Principal"] = {"AWS"}
                 /\ d.Statement[1]["Principal"]["AWS"] = P[1]
           /\ (P = Absent /\ r # Absent) =>
                 /\ Len(d.Statement) = 1
                 /\ DOMAIN d.Statement[1] = {"Effect", "Action", "Resource"}
                 /\ d.Statement[1]["Effect"] = "Allow"
                 /\ d.Statement[1]["Action"] = "sts:AssumeRole"
                 /\ d.Statement[1]["Resource"] = r[1]

C7_TwoPrincipals ==
    /\ last.op = "create_assume_role_doc"
    /\ last.args[2] = Absent /\ last.args[3] = Absent
    /\ last.args[1] # Absent
    /\ Len(last.args[1][1]) = 2
    /\ last.args[1][1][1] # last.args[1][1][2]
    /\ last.ret.Statement[1]["Principal"]["AWS"] = last.args[1][1]

(* C8: over serial configure_iam and add_aws_trust_to_role calls, a        *)
(* principal in a role's trust list stays in it in every later state.      *)
C8_TrustNeverShrinks ==
    [][\A r \in DOMAIN iam.roles :
          /\ r \in DOMAIN iam'.roles
          /\ Range(TrustedEntities(iam.roles[r].Trust))
                \subseteq Range(TrustedEntities(iam'.roles[r].Trust))]_vars

C8_ReconfiguredAfterTrustAdded ==
    /\ last.op = "configure_iam"
    /\ last.err = "none"
    /\ "role" \in last.pre
    /\ Len(TrustOf(last.args[2])) > Len(InitialPrincipals(caller_account, last.args[2]))

(* C9: whatever part of {templated policy, user, group, membership, role,  *)
(* Assume policy} exists before the call, configure_iam raises nothing,    *)
(* goes on to attach the policy to the role, create the Assume policy and  *)
(* attach the policy to the group, and returns the role's ARN.             *)
C9_AlreadyExistsIsBenign ==
    (last.op = "configure_iam") =>
        LET role_name == last.args[2]
            n == Len(last.calls)
        IN /\ last.err = "none"
           /\ role_name \in DOMAIN iam.roles
           /\ last.ret = iam.roles[role_name].Arn
           /\ n >= 3
           /\ SubSeq(last.calls, n - 2, n)
                 = <<"attach_role_policy", "create_policy", "attach_group_policy">>
           /\ IamArn(caller_account, "policy", DATA_MESH_IAM_PATH, last.args[1])
                 \in iam.roles[role_name].Attached
           /\ IamArn(caller_account, "policy", DATA_MESH_IAM_PATH, AssumePolicyName(role_name))
                 \in DOMAIN iam.policies
           /\ \E arn \in DOMAIN iam.policies : <<GroupName(role_name), arn>> \in iam.group_policies

C9_EverythingExisted ==
    /\ last.op = "configure_iam"
    /\ last.pre = Resources
    /\ last.err = "none"
    /\ last.ret = iam.roles[last.args[2]].Arn

(* C10: after create_assume_role_policy(account_id, policy_name, role_arn) *)
(* returns p, the policy stored under p grants sts:AssumeRole on exactly   *)
(* role_arn, also when a policy of that name already existed.              *)
C10_PolicyScopedToRoleArn ==
    (last.op = "create_assume_role_policy" /\ last.err = "none") =>
        /\ last.ret \in DOMAIN iam.policies
        /\ iam.policies[last.ret].Statement = <<AssumeStatement(last.args[2])>>

====
